---- MODULE Spec2Model ----
(***************************************************************************)
(* Todo backend: JWT authentication, task ownership, row locking and the   *)
(* error taxonomy.  Each request is a coroutine whose steps are the        *)
(* stretches of handler code between two awaits on the database; the       *)
(* database is PostgreSQL at READ COMMITTED, reached through one           *)
(* SQLAlchemy AsyncSession per request (core/database.py get_db).          *)
(***************************************************************************)
EXTENDS Integers, Sequences, FiniteSets, TLC

\* ------------------------------------------------------------------ bounds
\* number of requests issued in one behaviour
MaxReq == 3
\* number of task ids the storage sequence hands out
MaxTasks == 2
\* last clock tick of a behaviour of the request model
MaxTime == 1
\* last clock tick of a behaviour of the token model
MaxTokenTime == 7
\* clock ticks per second: datetime.utcnow() is finer than the whole seconds
\* a JWT carries
TicksPerSecond == 2

\* longest time to live of a token, in seconds
MaxTtl == 2

\* ------------------------------------------------------- program constants
\* SignupRequest.password: min_length=8
MinPasswordLen == 8
\* TaskCreate.title, TaskUpdate.title: min_length=1, max_length=200
MinTitleLen == 1
MaxTitleLen == 200
\* TaskCreate.description, TaskUpdate.description: max_length=2000
MaxDescriptionLen == 2000

ReqIds == 1..MaxReq
TaskIds == 1..MaxTasks
\* subjects of the tokens that are outstanding when the behaviour starts:
\* the ids of the two users that have signed up
Subjects == {1, 2}

\* ------------------------------------------------------------- error codes
ERROR_MISSING_TOKEN == "MISSING_TOKEN"
ERROR_INVALID_TOKEN == "INVALID_TOKEN"
ERROR_TOKEN_EXPIRED == "TOKEN_EXPIRED"
ERROR_USER_NOT_FOUND == "USER_NOT_FOUND"
ERROR_EMAIL_EXISTS == "EMAIL_ALREADY_EXISTS"
ERROR_TASK_NOT_FOUND == "TASK_NOT_FOUND"
ERROR_FORBIDDEN == "FORBIDDEN"
ERROR_INVALID_CREDENTIALS == "INVALID_CREDENTIALS"
ERROR_VALIDATION_FAILED == "VALIDATION_ERROR"
ERROR_INTERNAL_SERVER == "INTERNAL_SERVER_ERROR"
\* the error_code of a response that carries none
NoCode == "-"

\* AppException(status_code, error_code, message, details)
AppException(status, code) ==
  [kind |-> "AppException", status_code |-> status, error_code |-> code]

\* an exception of the driver, the ORM or the JWT library
LibraryError(name) ==
  [kind |-> name, status_code |-> 0, error_code |-> NoCode]

\* the return of a call that raised nothing
NoException == [kind |-> "none", status_code |-> 0, error_code |-> NoCode]

\* ------------------------------------------------------------------ strings
\* A str is a sequence of one-character strings; None is the str that no
\* request can send.
None == <<"None">>

IsSpace(c) == c = " "

RECURSIVE LStrip(_)
LStrip(s) ==
  IF s = <<>> THEN <<>>
  ELSE IF IsSpace(Head(s)) THEN LStrip(Tail(s)) ELSE s

RECURSIVE RStrip(_)
RStrip(s) ==
  IF s = <<>> THEN <<>>
  ELSE IF IsSpace(s[Len(s)]) THEN RStrip(SubSeq(s, 1, Len(s) - 1)) ELSE s

\* str.strip()
Strip(s) == RStrip(LStrip(s))

\* Python truthiness of an Optional[str]
Truthy(v) == v # None /\ v # <<>>

\* --------------------------------------------------------------- the clock
\* timegm(dt.utctimetuple()): a datetime as the whole seconds of a JWT
\* NumericDate, the fraction of the second dropped
ToIntDate(t) == t \div TicksPerSecond

\* timedelta(seconds=n) in clock ticks
Seconds(n) == n * TicksPerSecond

\* ------------------------------------------------------------ Token Service
\* settings.BETTER_AUTH_SECRET, and a key that is not the service's
BETTER_AUTH_SECRET == "secret"
OtherSecret == "other"

\* HS256 over the header and the claims: a value that a different payload or
\* a different key never reproduces
Sign(sub, exp, iat, key) == <<sub, exp, iat, key>>

\* jwt.encode(payload, key, algorithm="HS256"): exp and iat are converted to
\* whole seconds
JwtEncode(sub, exp, iat, key) ==
  [sub |-> sub, exp |-> ToIntDate(exp), iat |-> ToIntDate(iat),
   sig |-> Sign(sub, ToIntDate(exp), ToIntDate(iat), key)]

\* create_access_token(user_id, expires_delta) called at clock value t
CreateAccessToken(user_id, expires_delta, t) ==
  LET expire == t + expires_delta
  IN  JwtEncode(user_id, expire, t, BETTER_AUTH_SECRET)

\* a string that is no JWT at all
MalformedToken == [sub |-> 0, exp |-> 0, iat |-> 0, sig |-> <<0, 0, 0, "garbage">>]

\* mutant: a token is expired from its exp second on
JwtDecode_ExpInclusive(token, key, t) ==
  IF token.sig # Sign(token.sub, token.exp, token.iat, key)
    THEN LibraryError("JWTError")
  ELSE IF token.exp <= ToIntDate(t)
    THEN LibraryError("ExpiredSignatureError")
  ELSE NoException

\* mutant: the exp claim is read before the signature is verified
JwtDecode_ExpFirst(token, key, t) ==
  IF token.exp < ToIntDate(t)
    THEN LibraryError("ExpiredSignatureError")
  ELSE IF token.sig # Sign(token.sub, token.exp, token.iat, key)
    THEN LibraryError("JWTError")
  ELSE NoException

\* jwt.decode(token, key, algorithms=["HS256"]) at clock value t: the
\* signature first, then the exp claim against the whole second of the
\* clock, then the type of sub
JwtDecode(token, key, t) ==
  IF token.sig # Sign(token.sub, token.exp, token.iat, key)
    THEN LibraryError("JWTError")
  ELSE IF token.exp < ToIntDate(t)
    THEN LibraryError("ExpiredSignatureError")
  ELSE NoException

\* what a call returns: the exception it raised (NoException when it
\* returned) and the subject it returned (0 when it raised)
Raised(exc) == [exc |-> exc, sub |-> 0]
Returned(sub) == [exc |-> NoException, sub |-> sub]

\* verify_jwt(token) at clock value t; of the payload it returns, the sub
VerifyJwt(token, t) ==
  LET decoded == JwtDecode(token, BETTER_AUTH_SECRET, t)
  IN  IF decoded.kind = "ExpiredSignatureError"
        THEN Raised(AppException(401, ERROR_TOKEN_EXPIRED))
      ELSE IF decoded.kind = "JWTError"
        THEN Raised(AppException(401, ERROR_INVALID_TOKEN))
      ELSE IF token.sub = 0
        THEN Raised(AppException(401, ERROR_INVALID_TOKEN))
      ELSE Returned(token.sub)

\* the Authorization header of a request that sends none
NoCredentials == [sub |-> 0, exp |-> 0, iat |-> 0, sig |-> <<0, 0, 0, "absent">>]

\* mutant: absent credentials are handed to verify_jwt
GetCurrentUser_NoMissingCheck(credentials, t) == VerifyJwt(credentials, t)

\* get_current_user(credentials) at clock value t
GetCurrentUser(credentials, t) ==
  IF credentials = NoCredentials
    THEN Raised(AppException(401, ERROR_MISSING_TOKEN))
  ELSE VerifyJwt(credentials, t)

\* ---------------------------------------------------------------- the rows
\* models/task.py Task; NoTask is the row that a query did not find
NoTask ==
  [id |-> 0, user_id |-> 0, title |-> None, description |-> None,
   completed |-> FALSE, created_at |-> 0, updated_at |-> 0]

\* models/user.py User; NoUser is the row that a query did not find
NoUser == [id |-> 0, email |-> "", password_hash |-> <<>>, email_verified |-> FALSE]

\* pwd_context.hash(password), pwd_context.verify(plain, hashed)
HashPassword(password) == <<"bcrypt">> \o password
\* mutant: every password verifies
VerifyPassword_Always(plain_password, hashed_password) == TRUE

VerifyPassword(plain_password, hashed_password) ==
  hashed_password = <<"bcrypt">> \o plain_password

\* ------------------------------------------------------------ the responses
NoResponse ==
  [status |-> 0, error_code |-> NoCode, content |-> "none", task |-> NoTask,
   tasks |-> <<>>, access_token |-> NoCredentials, user |-> NoUser]

\* mutant: the JSONResponse is built without the exception's status code
AppExceptionHandler_NoStatus(exc) ==
  [NoResponse EXCEPT !.status = 200, !.error_code = exc.error_code,
                     !.content = "error"]

\* app_exception_handler: {error_code, message, details}
AppExceptionHandler(exc) ==
  [NoResponse EXCEPT !.status = exc.status_code, !.error_code = exc.error_code,
                     !.content = "error"]

\* validation_exception_handler: 422 {error_code, message, details}
ValidationExceptionHandler ==
  [NoResponse EXCEPT !.status = 422, !.error_code = ERROR_VALIDATION_FAILED,
                     !.content = "error"]

\* an exception no handler of main.py is registered for: the framework's
\* plain-text 500 "Internal Server Error"
ServerErrorMiddleware ==
  [NoResponse EXCEPT !.status = 500, !.content = "text/plain"]

\* the response main.py's app makes of an exception that left a route
ExceptionResponse(exc) ==
  IF exc.kind = "AppException" THEN AppExceptionHandler(exc)
  ELSE IF exc.kind = "RequestValidationError" THEN ValidationExceptionHandler
  ELSE ServerErrorMiddleware

\* the except clauses every route of tasks.py ends with: an AppException is
\* raised again, anything else becomes a 500 AppException
TaskRouteExcept(exc) ==
  IF exc.kind = "AppException" THEN exc
  ELSE AppException(500, ERROR_INTERNAL_SERVER)

\* ------------------------------------------------------------------- state
VARIABLES
  users,      \* the committed rows of table users
  tasks,      \* the committed row of table tasks under each id, or NoTask
  nextId,     \* the next value of the sequence behind Task.id
  lock,       \* the request whose transaction holds each row's lock, or 0
  req,        \* the requests: their input, their place and their session
  now,        \* datetime.utcnow(), in ticks
  token,      \* token model: the token under test
  issued,     \* token model: the call of create_access_token that made it
  verdict     \* token model: the last call of verify_jwt

vars == <<users, tasks, nextId, lock, req, now, token, issued, verdict>>
dbVars == <<users, tasks, nextId, lock>>
tokenVars == <<token, issued, verdict>>

\* ---------------------------------------------------------------- requests
\* A request: the route (op), the place of its coroutine (pc), what it sent,
\* what its dependencies resolved (current_user), the objects of its session
\* (task with the attribute values as loaded in loaded; user), whether its
\* transaction committed a write, and its response.
NoRequest ==
  [op |-> "none", pc |-> "idle", credentials |-> NoCredentials,
   current_user |-> 0, task_id |-> 0, title |-> None, description |-> None,
   body_user_id |-> 0, email |-> "", password |-> <<>>, task |-> NoTask, loaded |-> NoTask,
   user |-> NoUser, committed |-> FALSE, resp |-> NoResponse]

\* requests are numbered in the order they arrive
Arrives(r) ==
  /\ req[r].pc = "idle"
  /\ \A x \in ReqIds : x < r => req[x].pc # "idle"

\* the tokens clients hold when the behaviour starts: one per user that lasts
\* the whole behaviour, and one of user 1 that has run out
ValidTokens == {CreateAccessToken(s, Seconds(MaxTtl), 0) : s \in Subjects}

OutstandingTokens ==
  ValidTokens \cup {CreateAccessToken(1, Seconds(1), 0 - Seconds(2))}

\* tokens the service never issued: signed with another key, a signature
\* segment altered, the payload of a valid token edited, no JWT at all
ForgedTokens ==
  LET valid == CreateAccessToken(1, Seconds(MaxTtl), 0)
  IN  { JwtEncode(1, Seconds(MaxTtl), 0, OtherSecret),
        [valid EXCEPT !.sig = <<valid.sub, valid.exp, valid.iat, "altered">>],
        [valid EXCEPT !.sub = 2],
        MalformedToken }

Credentials == {NoCredentials} \cup OutstandingTokens \cup ForgedTokens

\* a str of n characters
Chars(n) == [i \in 1..n |-> "a"]

\* what clients send as title and description
CreateTitles == {<<" ", "a">>, <<" ">>, <<>>, Chars(MaxTitleLen + 1)}
CreateDescriptions == {None, <<" ", "x">>, Chars(MaxDescriptionLen + 1)}
UpdateTitles == {None, <<"c", " ">>, <<" ">>, <<>>, Chars(MaxTitleLen + 1)}
UpdateDescriptions == {None, <<>>, <<" ">>, <<"y">>}
\* a "user_id" member in the body of a PUT: absent (0), or the id of user 2
UpdateOwners == {0, 2}

\* mutant: the validators check the stripped value and return the raw one
TaskCreate_NoStrip(title, description) ==
  LET title_ok ==
        /\ title # None
        /\ Len(title) >= MinTitleLen /\ Len(title) <= MaxTitleLen
        /\ Strip(title) # <<>>
      description_ok ==
        description = None \/ Len(description) <= MaxDescriptionLen
  IN  [valid |-> title_ok /\ description_ok,
       title |-> title,
       description |-> IF Truthy(description) THEN description ELSE None]

\* schemas/task.py TaskCreate: the Field constraints, then the validators
TaskCreate(title, description) ==
  LET title_ok ==
        /\ title # None
        /\ Len(title) >= MinTitleLen /\ Len(title) <= MaxTitleLen
        /\ Strip(title) # <<>>
      description_ok ==
        description = None \/ Len(description) <= MaxDescriptionLen
  IN  [valid |-> title_ok /\ description_ok,
       title |-> Strip(title),
       description |-> IF Truthy(description) THEN Strip(description) ELSE None]

\* schemas/task.py TaskUpdate: the Field constraints, then the validators
TaskUpdate(title, description) ==
  LET title_ok ==
        \/ title = None
        \/ /\ Len(title) >= MinTitleLen /\ Len(title) <= MaxTitleLen
           /\ Strip(title) # <<>>
      description_ok ==
        description = None \/ Len(description) <= MaxDescriptionLen
  IN  [valid |-> title_ok /\ description_ok,
       title |-> IF Truthy(title) THEN Strip(title) ELSE None,
       description |-> IF Truthy(description) THEN Strip(description) ELSE None]

\* the request ends with this response; its session is closed on the way out
\* (get_db), which matters only when its transaction holds a lock
Return(q, response, held) ==
  [q EXCEPT !.resp = response, !.pc = IF held THEN "close" ELSE "done",
            !.title = None, !.description = None, !.body_user_id = 0,
            !.password = <<>>,
            !.task = NoTask, !.loaded = NoTask, !.user = NoUser]

Raise(q, exc, held) == Return(q, ExceptionResponse(exc), held)

\* a response_model serialised with the route's status code
JSON(status) == [NoResponse EXCEPT !.status = status, !.content = "json"]

\* ------------------------------------------------------------- the storage
\* SELECT ... WHERE id = task_id, read committed
SelectTask(task_id) ==
  IF task_id \in DOMAIN tasks THEN tasks[task_id] ELSE NoTask

\* a row lock is granted when no other transaction holds it
\* mutant: the locked fetch does not wait for the row lock
LockFree_NoWait(r, task_id) == TRUE

LockFree(r, task_id) == lock[task_id] = 0 \/ lock[task_id] = r

\* mutant: the end of a transaction leaves its row locks in place
ReleaseLocks_Never(r) == lock

\* COMMIT, ROLLBACK and session.close() end the transaction of request r
ReleaseLocks(r) == [t \in TaskIds |-> IF lock[t] = r THEN 0 ELSE lock[t]]

Holds(r) == \E t \in TaskIds : lock[t] = r

\* mutant: the UPDATE sets every column from the loaded object
Flush_WholeRow(row, obj, loaded) == obj

\* the unit of work writes the attributes whose value differs from the one
\* loaded: UPDATE tasks SET <those> WHERE id = ...
Flush(row, obj, loaded) ==
  [f \in DOMAIN row |-> IF obj[f] # loaded[f] THEN obj[f] ELSE row[f]]

\* mutant: the ownership check is left out
GetUserTaskOr404_NoOwnerCheck(task, user_id) ==
  IF task = NoTask THEN AppException(404, ERROR_TASK_NOT_FOUND)
  ELSE NoException

\* mutant: the ownership check comes before the existence check
GetUserTaskOr404_OwnerFirst(task, user_id) ==
  IF task.user_id # user_id THEN AppException(403, ERROR_FORBIDDEN)
  ELSE IF task = NoTask THEN AppException(404, ERROR_TASK_NOT_FOUND)
  ELSE NoException

\* core/authorization.py get_user_task_or_404, on the row the SELECT returned:
\* the exception it raises, or NoException when it returns the task
GetUserTaskOr404(task, user_id) ==
  IF task = NoTask THEN AppException(404, ERROR_TASK_NOT_FOUND)
  ELSE IF task.user_id # user_id THEN AppException(403, ERROR_FORBIDDEN)
  ELSE NoException

\* A route is entered when its dependencies are resolved: the exception of
\* get_current_user leaves before the route's body runs.  What a coroutine
\* does before its first statement reaches the database touches nothing
\* shared, so it is one step with that statement.
Enter(q, cred) ==
  LET auth == GetCurrentUser(cred, now)
  IN  IF auth.exc # NoException THEN Raise(q, auth.exc, FALSE)
      ELSE [q EXCEPT !.current_user = auth.sub, !.pc = "entered"]

\* ------------------------------------------------------- GET /tasks
\* mutant: ORDER BY created_at, ascending
OrderByCreatedAtDesc_Asc(user_id) ==
  LET rows == {tasks[t] : t \in {x \in TaskIds : tasks[x] # NoTask
                                               /\ tasks[x].user_id = user_id}}
      n == Cardinality(rows)
  IN  {s \in [1..n -> rows] :
         /\ \A i, j \in 1..n : i # j => s[i] # s[j]
         /\ \A i, j \in 1..n : i < j => s[i].created_at <= s[j].created_at}

\* the rows of user_id in an order the ORDER BY created_at DESC allows
OrderByCreatedAtDesc(user_id) ==
  LET rows == {tasks[t] : t \in {x \in TaskIds : tasks[x] # NoTask
                                               /\ tasks[x].user_id = user_id}}
      n == Cardinality(rows)
  IN  {s \in [1..n -> rows] :
         /\ \A i, j \in 1..n : i # j => s[i] # s[j]
         /\ \A i, j \in 1..n : i < j => s[i].created_at >= s[j].created_at}

ListTasks(r, creds) ==
  /\ Arrives(r)
  /\ \E cred \in creds :
       LET q == [NoRequest EXCEPT !.op = "list_tasks", !.credentials = cred]
           entered == Enter(q, cred)
       IN  IF entered.pc = "done"
             THEN req' = [req EXCEPT ![r] = entered]
           ELSE \E result \in OrderByCreatedAtDesc(entered.current_user) :
                  req' = [req EXCEPT ![r] =
                            Return(entered, [JSON(200) EXCEPT !.tasks = result],
                                   FALSE)]
  /\ UNCHANGED <<dbVars, now, tokenVars>>

\* ------------------------------------------------------- POST /tasks
\* Task(user_id=..., created_at=datetime.utcnow(), updated_at=datetime.utcnow()):
\* the clock is read twice; then db.add(task); await db.commit(): the INSERT
\* takes the id of the sequence
CreateTaskCommit(r, creds) ==
  /\ Arrives(r)
  /\ nextId <= MaxTasks
  /\ \E cred \in creds, title \in CreateTitles,
        description \in CreateDescriptions,
        second_read \in {t \in {now, now + 1} : t <= MaxTime} :
       LET q == [NoRequest EXCEPT !.op = "create_task", !.credentials = cred]
           entered == Enter(q, cred)
           task_data == TaskCreate(title, description)
           task == [NoTask EXCEPT !.id = nextId,
                                  !.user_id = entered.current_user,
                                  !.title = task_data.title,
                                  !.description = task_data.description,
                                  !.completed = FALSE,
                                  !.created_at = now,
                                  !.updated_at = second_read]
       IN  IF entered.pc = "done"
             THEN /\ req' = [req EXCEPT ![r] = entered]
                  /\ UNCHANGED <<tasks, nextId, now>>
           ELSE IF ~task_data.valid
             THEN /\ req' = [req EXCEPT ![r] =
                      Raise(entered, LibraryError("RequestValidationError"), FALSE)]
                  /\ UNCHANGED <<tasks, nextId, now>>
           ELSE /\ req' = [req EXCEPT ![r] =
                             [entered EXCEPT !.task = task, !.task_id = nextId,
                                             !.committed = TRUE,
                                             !.pc = "refresh"]]
                /\ tasks' = [tasks EXCEPT ![nextId] = task]
                /\ nextId' = nextId + 1
                /\ now' = second_read
  /\ UNCHANGED <<users, lock, tokenVars>>

\* await db.refresh(task); return task: the row is read again, and a row
\* that is gone raises InvalidRequestError into the route's except clause
Refresh(q, status) ==
  LET row == SelectTask(q.task.id)
  IN  IF row = NoTask
        THEN Raise(q, TaskRouteExcept(LibraryError("InvalidRequestError")), FALSE)
      ELSE Return(q, [JSON(status) EXCEPT !.task = row], FALSE)

CreateTaskRefresh(r) ==
  /\ req[r].op = "create_task" /\ req[r].pc = "refresh"
  /\ req' = [req EXCEPT ![r] = Refresh(@, 201)]
  /\ UNCHANGED <<dbVars, now, tokenVars>>

\* ------------------------------------------------------- GET /tasks/{id}
GetTask(r, creds) ==
  /\ Arrives(r)
  /\ \E cred \in creds, task_id \in TaskIds :
       LET q == [NoRequest EXCEPT !.op = "get_task", !.credentials = cred]
           entered == Enter(q, cred)
           task == SelectTask(task_id)
           exc == GetUserTaskOr404(task, entered.current_user)
           fetching == [entered EXCEPT !.task_id = task_id]
       IN  req' = [req EXCEPT ![r] =
                     IF entered.pc = "done" THEN entered
                     ELSE IF exc # NoException
                       THEN Raise(fetching, TaskRouteExcept(exc), FALSE)
                     ELSE Return(fetching, [JSON(200) EXCEPT !.task = task], FALSE)]
  /\ UNCHANGED <<dbVars, now, tokenVars>>

\* ------------------------------------------------------- PUT /tasks/{id}
\* mutant: the route also copies the body's user_id onto the task
ApplyUpdate_SetsOwner(task, task_data, body_user_id, t) ==
  [task EXCEPT
     !.title = IF task_data.title # None THEN task_data.title ELSE @,
     !.description = IF task_data.description # None
                       THEN task_data.description ELSE @,
     !.user_id = IF body_user_id # 0 THEN body_user_id ELSE @,
     !.updated_at = t]

\* the attribute sets of update_task at clock value t: task_data has the
\* fields TaskUpdate declares, the other members of the body were dropped
ApplyUpdate(task, task_data, body_user_id, t) ==
  [task EXCEPT
     !.title = IF task_data.title # None THEN task_data.title ELSE @,
     !.description = IF task_data.description # None
                       THEN task_data.description ELSE @,
     !.updated_at = t]

\* task = await get_user_task_or_404(task_id, current_user, db), then the
\* attributes are set on the loaded object
UpdateTaskFetch(r, creds) ==
  /\ Arrives(r)
  /\ \E cred \in creds, task_id \in TaskIds, title \in UpdateTitles,
        description \in UpdateDescriptions, user_id \in UpdateOwners :
       LET q == [NoRequest EXCEPT !.op = "update_task", !.credentials = cred]
           entered == Enter(q, cred)
           task_data == TaskUpdate(title, description)
           task == SelectTask(task_id)
           exc == GetUserTaskOr404(task, entered.current_user)
           fetching == [entered EXCEPT !.task_id = task_id,
                                       !.title = title,
                                       !.description = description,
                                       !.body_user_id = user_id]
           changed == ApplyUpdate(task, task_data, user_id, now)
       IN  req' = [req EXCEPT ![r] =
                     IF entered.pc = "done" THEN entered
                     ELSE IF ~task_data.valid
                       THEN Raise(entered, LibraryError("RequestValidationError"), FALSE)
                     ELSE IF exc # NoException
                       THEN Raise(fetching, TaskRouteExcept(exc), FALSE)
                     ELSE [fetching EXCEPT !.task = changed, !.loaded = task,
                                           !.pc = "commit"]]
  /\ UNCHANGED <<dbVars, now, tokenVars>>

\* await db.commit() of a session with one changed object: the UPDATE waits
\* for the row's lock, finds no row (StaleDataError, caught by the route:
\* rollback, 500) or writes the changed attributes, and the transaction ends
CommitUpdate(r) ==
  LET q == req[r]
      row == SelectTask(q.task.id)
  IN  IF q.task = q.loaded
        THEN /\ req' = [req EXCEPT ![r].pc = "refresh"]
             /\ tasks' = tasks
             /\ lock' = ReleaseLocks(r)
      ELSE /\ LockFree(r, q.task.id)
           /\ lock' = ReleaseLocks(r)
           /\ IF row = NoTask
                THEN /\ req' = [req EXCEPT ![r] =
                          Raise(@, TaskRouteExcept(LibraryError("StaleDataError")),
                                FALSE)]
                     /\ tasks' = tasks
              ELSE /\ tasks' = [tasks EXCEPT ![q.task.id] =
                                  Flush(row, q.task, q.loaded)]
                   /\ req' = [req EXCEPT ![r].committed = TRUE,
                                         ![r].pc = "refresh"]

UpdateTaskCommit(r) ==
  /\ req[r].op = "update_task" /\ req[r].pc = "commit"
  /\ CommitUpdate(r)
  /\ UNCHANGED <<users, nextId, now, tokenVars>>

UpdateTaskRefresh(r) ==
  /\ req[r].op = "update_task" /\ req[r].pc = "refresh"
  /\ req' = [req EXCEPT ![r] = Refresh(@, 200)]
  /\ UNCHANGED <<dbVars, now, tokenVars>>

\* ------------------------------------------------------- DELETE /tasks/{id}
DeleteTaskFetch(r, creds) ==
  /\ Arrives(r)
  /\ \E cred \in creds, task_id \in TaskIds :
       LET q == [NoRequest EXCEPT !.op = "delete_task", !.credentials = cred]
           entered == Enter(q, cred)
           task == SelectTask(task_id)
           exc == GetUserTaskOr404(task, entered.current_user)
           fetching == [entered EXCEPT !.task_id = task_id]
       IN  req' = [req EXCEPT ![r] =
                     IF entered.pc = "done" THEN entered
                     ELSE IF exc # NoException
                       THEN Raise(fetching, TaskRouteExcept(exc), FALSE)
                     ELSE [fetching EXCEPT !.task = task, !.loaded = task,
                                           !.pc = "commit"]]
  /\ UNCHANGED <<dbVars, now, tokenVars>>

\* mutant: the route returns 204 without committing the DELETE
DeleteTaskCommit_NoCommit(r) ==
  /\ req[r].op = "delete_task" /\ req[r].pc = "commit"
  /\ LockFree(r, req[r].task.id)
  /\ tasks' = tasks
  /\ lock' = ReleaseLocks(r)
  /\ req' = [req EXCEPT ![r] =
               Return(req[r],
                      [NoResponse EXCEPT !.status = 204, !.content = "empty"],
                      FALSE)]
  /\ UNCHANGED <<users, nextId, now, tokenVars>>

\* await db.delete(task); await db.commit(): the DELETE waits for the row's
\* lock; a DELETE that matches no row only warns
DeleteTaskCommit(r) ==
  /\ req[r].op = "delete_task" /\ req[r].pc = "commit"
  /\ LockFree(r, req[r].task.id)
  /\ tasks' = [tasks EXCEPT ![req[r].task.id] = NoTask]
  /\ lock' = ReleaseLocks(r)
  /\ req' = [req EXCEPT ![r] =
               Return([req[r] EXCEPT
                         !.committed = SelectTask(req[r].task.id) # NoTask],
                      [NoResponse EXCEPT !.status = 204, !.content = "empty"],
                      FALSE)]
  /\ UNCHANGED <<users, nextId, now, tokenVars>>

\* ------------------------------------------------------- PATCH /tasks/{id}/complete
CallToggleTaskCompletion(r, creds) ==
  /\ Arrives(r)
  /\ \E cred \in creds, task_id \in TaskIds :
       LET q == [NoRequest EXCEPT !.op = "toggle_task_completion",
                                  !.credentials = cred]
           entered == Enter(q, cred)
       IN  req' = [req EXCEPT ![r] =
                     IF entered.pc = "done" THEN entered
                     ELSE [entered EXCEPT !.task_id = task_id, !.pc = "fetch"]]
  /\ UNCHANGED <<dbVars, now, tokenVars>>

\* get_user_task_or_404(..., for_update=True): SELECT ... FOR UPDATE waits
\* for the row's lock, takes it and reads the committed row; then the
\* attributes are set on the loaded object
ToggleTaskCompletionFetch(r) ==
  /\ req[r].op = "toggle_task_completion" /\ req[r].pc = "fetch"
  /\ LET task == SelectTask(req[r].task_id)
         exc == GetUserTaskOr404(task, req[r].current_user)
         changed == [task EXCEPT !.completed = ~@, !.updated_at = now]
     IN  /\ task # NoTask => LockFree(r, req[r].task_id)
         /\ lock' = IF task # NoTask
                      THEN [lock EXCEPT ![req[r].task_id] = r] ELSE lock
         /\ req' = [req EXCEPT ![r] =
                      IF exc # NoException
                        THEN Raise(@, TaskRouteExcept(exc), task # NoTask)
                      ELSE [@ EXCEPT !.task = changed, !.loaded = task,
                                     !.pc = "commit"]]
  /\ UNCHANGED <<users, tasks, nextId, now, tokenVars>>

ToggleTaskCompletionCommit(r) ==
  /\ req[r].op = "toggle_task_completion" /\ req[r].pc = "commit"
  /\ CommitUpdate(r)
  /\ UNCHANGED <<users, nextId, now, tokenVars>>

ToggleTaskCompletionRefresh(r) ==
  /\ req[r].op = "toggle_task_completion" /\ req[r].pc = "refresh"
  /\ req' = [req EXCEPT ![r] = Refresh(@, 200)]
  /\ UNCHANGED <<dbVars, now, tokenVars>>

\* mutant: the session of a request that raised is left open
SessionClose_KeepsLock(r) ==
  /\ req[r].pc = "close"
  /\ lock' = lock
  /\ req' = [req EXCEPT ![r].pc = "done"]
  /\ UNCHANGED <<users, tasks, nextId, now, tokenVars>>

\* core/database.py get_db: finally: await session.close() ends the
\* transaction the request left open
SessionClose(r) ==
  /\ req[r].pc = "close"
  /\ lock' = ReleaseLocks(r)
  /\ req' = [req EXCEPT ![r].pc = "done"]
  /\ UNCHANGED <<users, tasks, nextId, now, tokenVars>>

\* ------------------------------------------------------- POST /auth/signup
Password1 == <<"p", "a", "s", "s", "w", "o", "r", "d">>
Password2 == <<"d", "r", "o", "w", "s", "s", "a", "p">>
ShortPassword == <<"p", "w">>

\* the user that signed up before the behaviour starts
User1 ==
  [id |-> 1, email |-> "a@x.com", password_hash |-> HashPassword(Password1),
   email_verified |-> FALSE]

\* uuid.uuid4(): an id no other call returns
Uuid4(r) == Cardinality(Subjects) + r

\* select(User).where(User.email == email): the rows found
SelectUsersByEmail(email) == {u \in users : u.email = email}
SelectUsersById(id) == {u \in users : u.id = id}

\* result.scalar_one_or_none()
ScalarOneOrNone(rows) == IF rows = {} THEN NoUser ELSE CHOOSE u \in rows : TRUE

\* the unique index on users.email (User.email: unique=True) refuses the
\* mutant: the users table has no unique index on email
UniqueViolation_NoIndex(user) == FALSE

\* INSERT of a second row with the same email
UniqueViolation(user) == \E u \in users : u.email = user.email

\* schemas/auth.py SignupRequest
SignupRequest(email, password) == Len(password) >= MinPasswordLen

\* the lookup of the email, then the User object is built
SignupLookup(r) ==
  /\ Arrives(r)
  /\ \E email \in {"a@x.com", "c@x.com"}, password \in {Password2, ShortPassword} :
       LET q == [NoRequest EXCEPT !.op = "signup"]
           rows == SelectUsersByEmail(email)
           existing_user == ScalarOneOrNone(rows)
           new_user == [id |-> Uuid4(r), email |-> email,
                        password_hash |-> HashPassword(password),
                        email_verified |-> FALSE]
           looking == [q EXCEPT !.email = email, !.password = password]
       IN  req' = [req EXCEPT ![r] =
                     IF ~SignupRequest(email, password)
                       THEN Raise(q, LibraryError("RequestValidationError"), FALSE)
                     ELSE IF Cardinality(rows) > 1
                       THEN Raise(looking, LibraryError("MultipleResultsFound"), FALSE)
                     ELSE IF existing_user # NoUser
                       THEN Raise(looking, AppException(400, ERROR_EMAIL_EXISTS), FALSE)
                     ELSE [looking EXCEPT !.user = new_user, !.pc = "commit"]]
  /\ UNCHANGED <<dbVars, now, tokenVars>>

\* session.add(new_user); await session.commit(): the INSERT either violates
\* the unique index (IntegrityError, which signup does not catch) or commits
SignupCommit(r) ==
  /\ req[r].op = "signup" /\ req[r].pc = "commit"
  /\ IF UniqueViolation(req[r].user)
       THEN /\ req' = [req EXCEPT ![r] =
                        Raise(@, LibraryError("IntegrityError"), FALSE)]
            /\ users' = users
     ELSE /\ users' = users \cup {req[r].user}
          /\ req' = [req EXCEPT ![r].committed = TRUE, ![r].pc = "refresh"]
  /\ UNCHANGED <<tasks, nextId, lock, now, tokenVars>>

\* the AuthResponse of signup and signin: create_access_token(user.id) with
\* its default expires_delta
AuthResponse(status, user) ==
  [JSON(status) EXCEPT
     !.access_token = CreateAccessToken(user.id, Seconds(MaxTtl), now),
     !.user = user]

\* await session.refresh(new_user), then the token is made
SignupRefresh(r) ==
  /\ req[r].op = "signup" /\ req[r].pc = "refresh"
  /\ LET rows == SelectUsersById(req[r].user.id)
     IN  req' = [req EXCEPT ![r] =
                   IF rows = {}
                     THEN Raise(@, LibraryError("InvalidRequestError"), FALSE)
                   ELSE Return(@, AuthResponse(201, ScalarOneOrNone(rows)), FALSE)]
  /\ UNCHANGED <<dbVars, now, tokenVars>>

\* ------------------------------------------------------- POST /auth/signin
Signin(r) ==
  /\ Arrives(r)
  /\ \E email \in {"a@x.com", "c@x.com"}, password \in {Password1, Password2} :
       LET q == [NoRequest EXCEPT !.op = "signin", !.email = email,
                                  !.password = password]
           rows == SelectUsersByEmail(email)
           user == ScalarOneOrNone(rows)
           ended ==
             IF Cardinality(rows) > 1
               THEN Raise(q, LibraryError("MultipleResultsFound"), FALSE)
             ELSE IF user = NoUser
                     \/ ~VerifyPassword(password, user.password_hash)
               THEN Raise(q, AppException(401, ERROR_INVALID_CREDENTIALS), FALSE)
             ELSE Return(q, AuthResponse(200, user), FALSE)
       IN  \* the request keeps the password it carried
           req' = [req EXCEPT ![r] = [ended EXCEPT !.password = password]]
  /\ UNCHANGED <<dbVars, now, tokenVars>>

\* ------------------------------------------------------- GET /auth/me
GetMe(r, creds) ==
  /\ Arrives(r)
  /\ \E cred \in creds :
       LET q == [NoRequest EXCEPT !.op = "get_me", !.credentials = cred]
           entered == Enter(q, cred)
           rows == SelectUsersById(entered.current_user)
           user == ScalarOneOrNone(rows)
       IN  req' = [req EXCEPT ![r] =
                     IF entered.pc = "done" THEN entered
                     ELSE IF user = NoUser
                       THEN Raise(entered, AppException(404, ERROR_USER_NOT_FOUND),
                                  FALSE)
                     ELSE Return(entered, [JSON(200) EXCEPT !.user = user], FALSE)]
  /\ UNCHANGED <<dbVars, now, tokenVars>>

\* ------------------------------------------------------- the clock
Tick ==
  /\ now < MaxTime
  /\ now' = now + 1
  /\ UNCHANGED <<dbVars, req, tokenVars>>

\* ------------------------------------------------------- the request model
NoIssue == [user_id |-> 0, expires_delta |-> 0, at |-> 0]
NoVerdict == [token |-> NoCredentials, at |-> 0 - 1, exc |-> NoException, sub |-> 0]

\* the tables hold user 1 and no task (user 2's row is gone: fix_database.py
\* dropped the tables after 2 signed up and before 1 did); both hold tokens
Init ==
  /\ users = {User1}
  /\ tasks = [t \in TaskIds |-> NoTask]
  /\ nextId = 1
  /\ lock = [t \in TaskIds |-> 0]
  /\ req = [r \in ReqIds |-> NoRequest]
  /\ now = 0
  /\ token = NoCredentials
  /\ issued = NoIssue
  /\ verdict = NoVerdict

\* the task routes called by the two token holders
Next ==
  \/ \E r \in ReqIds : ListTasks(r, ValidTokens)
  \/ \E r \in ReqIds : CreateTaskCommit(r, ValidTokens)
  \/ \E r \in ReqIds : CreateTaskRefresh(r)
  \/ \E r \in ReqIds : GetTask(r, ValidTokens)
  \/ \E r \in ReqIds : UpdateTaskFetch(r, ValidTokens)
  \/ \E r \in ReqIds : UpdateTaskCommit(r)
  \/ \E r \in ReqIds : UpdateTaskRefresh(r)
  \/ \E r \in ReqIds : DeleteTaskFetch(r, ValidTokens)
  \/ \E r \in ReqIds : DeleteTaskCommit(r)
  \/ \E r \in ReqIds : CallToggleTaskCompletion(r, ValidTokens)
  \/ \E r \in ReqIds : ToggleTaskCompletionFetch(r)
  \/ \E r \in ReqIds : ToggleTaskCompletionCommit(r)
  \/ \E r \in ReqIds : ToggleTaskCompletionRefresh(r)
  \/ \E r \in ReqIds : SessionClose(r)
  \/ Tick

Spec == Init /\ [][Next]_vars

\* the auth routes, called with any credential
NextAuth ==
  \/ \E r \in ReqIds : SignupLookup(r)
  \/ \E r \in ReqIds : SignupCommit(r)
  \/ \E r \in ReqIds : SignupRefresh(r)
  \/ \E r \in ReqIds : Signin(r)
  \/ \E r \in ReqIds : GetMe(r, Credentials)
  \/ Tick

SpecAuth == Init /\ [][NextAuth]_vars

\* every route, called with any credential, a request or two at a time
MaxGuardReq == 2
GuardReqIds == 1..MaxGuardReq

NextGuard ==
  \/ \E r \in GuardReqIds : ListTasks(r, Credentials)
  \/ \E r \in GuardReqIds : CreateTaskCommit(r, Credentials)
  \/ \E r \in GuardReqIds : CreateTaskRefresh(r)
  \/ \E r \in GuardReqIds : GetTask(r, Credentials)
  \/ \E r \in GuardReqIds : UpdateTaskFetch(r, Credentials)
  \/ \E r \in GuardReqIds : UpdateTaskCommit(r)
  \/ \E r \in GuardReqIds : UpdateTaskRefresh(r)
  \/ \E r \in GuardReqIds : DeleteTaskFetch(r, Credentials)
  \/ \E r \in GuardReqIds : DeleteTaskCommit(r)
  \/ \E r \in GuardReqIds : CallToggleTaskCompletion(r, Credentials)
  \/ \E r \in GuardReqIds : ToggleTaskCompletionFetch(r)
  \/ \E r \in GuardReqIds : ToggleTaskCompletionCommit(r)
  \/ \E r \in GuardReqIds : ToggleTaskCompletionRefresh(r)
  \/ \E r \in GuardReqIds : SessionClose(r)
  \/ \E r \in GuardReqIds : SignupLookup(r)
  \/ \E r \in GuardReqIds : SignupCommit(r)
  \/ \E r \in GuardReqIds : SignupRefresh(r)
  \/ \E r \in GuardReqIds : Signin(r)
  \/ \E r \in GuardReqIds : GetMe(r, Credentials)
  \/ Tick

SpecGuard == Init /\ [][NextGuard]_vars

\* create and toggle only, and every coroutine that can run is run: the event
\* loop resumes a coroutine whose await has completed
NextLock ==
  \/ \E r \in ReqIds : CreateTaskCommit(r, ValidTokens)
  \/ \E r \in ReqIds : CreateTaskRefresh(r)
  \/ \E r \in ReqIds : CallToggleTaskCompletion(r, ValidTokens)
  \/ \E r \in ReqIds : ToggleTaskCompletionFetch(r)
  \/ \E r \in ReqIds : ToggleTaskCompletionCommit(r)
  \/ \E r \in ReqIds : ToggleTaskCompletionRefresh(r)
  \/ \E r \in ReqIds : SessionClose(r)
  \/ Tick

EventLoop ==
  \A r \in ReqIds :
    /\ WF_vars(CreateTaskRefresh(r))
    /\ WF_vars(ToggleTaskCompletionFetch(r))
    /\ WF_vars(ToggleTaskCompletionCommit(r))
    /\ WF_vars(ToggleTaskCompletionRefresh(r))
    /\ WF_vars(SessionClose(r))

SpecLock == Init /\ [][NextLock]_vars /\ EventLoop

\* the token of user 1 among the tokens clients hold
OwnerTokens == {c \in ValidTokens : c.sub = 1}

\* the task routes at one clock value, called by user 1, and toggles called
\* by both token holders; every coroutine that can run is run
NextLive ==
  \/ \E r \in ReqIds : ListTasks(r, OwnerTokens)
  \/ \E r \in ReqIds : CreateTaskCommit(r, OwnerTokens)
  \/ \E r \in ReqIds : CreateTaskRefresh(r)
  \/ \E r \in ReqIds : GetTask(r, OwnerTokens)
  \/ \E r \in ReqIds : UpdateTaskFetch(r, OwnerTokens)
  \/ \E r \in ReqIds : UpdateTaskCommit(r)
  \/ \E r \in ReqIds : UpdateTaskRefresh(r)
  \/ \E r \in ReqIds : DeleteTaskFetch(r, OwnerTokens)
  \/ \E r \in ReqIds : DeleteTaskCommit(r)
  \/ \E r \in ReqIds : CallToggleTaskCompletion(r, ValidTokens)
  \/ \E r \in ReqIds : ToggleTaskCompletionFetch(r)
  \/ \E r \in ReqIds : ToggleTaskCompletionCommit(r)
  \/ \E r \in ReqIds : ToggleTaskCompletionRefresh(r)
  \/ \E r \in ReqIds : SessionClose(r)

EventLoopTasks ==
  /\ EventLoop
  /\ \A r \in ReqIds :
       /\ WF_vars(UpdateTaskCommit(r))
       /\ WF_vars(UpdateTaskRefresh(r))
       /\ WF_vars(DeleteTaskCommit(r))

SpecLive == Init /\ [][NextLive]_vars /\ EventLoopTasks

\* ------------------------------------------------------- the token model
\* create_access_token is called once, with any subject and any lifetime
IssueToken ==
  /\ issued = NoIssue
  /\ \E user_id \in Subjects, expires_delta \in 0..Seconds(MaxTtl) :
       /\ token' = CreateAccessToken(user_id, expires_delta, now)
       /\ issued' = [user_id |-> user_id, expires_delta |-> expires_delta,
                     at |-> now]
  /\ UNCHANGED <<dbVars, req, now, verdict>>

\* what someone without the secret can make of a token: alter its signature
\* segment, edit a claim and keep the signature, or sign with another key
TamperToken ==
  /\ issued # NoIssue
  /\ token = CreateAccessToken(issued.user_id, issued.expires_delta, issued.at)
  /\ \E forged \in
         { [token EXCEPT !.sig = <<token.sub, token.exp, token.iat, "altered">>],
           [token EXCEPT !.exp = token.exp + 1],
           [token EXCEPT !.sub = CHOOSE s \in Subjects : s # token.sub],
           [token EXCEPT !.sig = Sign(token.sub, token.exp, token.iat, OtherSecret)],
           MalformedToken } :
       token' = forged
  /\ UNCHANGED <<dbVars, req, now, issued, verdict>>

VerifyToken ==
  /\ issued # NoIssue
  /\ LET result == VerifyJwt(token, now)
     IN  verdict' = [token |-> token, at |-> now, exc |-> result.exc,
                     sub |-> result.sub]
  /\ UNCHANGED <<dbVars, req, now, token, issued>>

TickToken ==
  /\ now < MaxTokenTime
  /\ now' = now + 1
  /\ UNCHANGED <<dbVars, req, tokenVars>>

NextToken == IssueToken \/ TamperToken \/ VerifyToken \/ TickToken

SpecToken == Init /\ [][NextToken]_vars

\* ================================================================= claims
\* the routes that fetch one task through get_user_task_or_404
TaskRoutes ==
  {"get_task", "update_task", "delete_task", "toggle_task_completion"}

\* request r runs its get_user_task_or_404 in this step
Fetches(r) ==
  /\ req'[r].op \in TaskRoutes
  /\ req'[r].task_id # 0
  /\ \/ req[r].pc = "idle" /\ req'[r].op # "toggle_task_completion"
     \/ req[r].pc = "fetch" /\ req'[r].pc # "fetch"

Failed(q, status, code) ==
  /\ q.pc \in {"done", "close"}
  /\ q.resp.status = status
  /\ q.resp.error_code = code
  /\ q.resp.content = "error"

\* C1: a get, update, delete or toggle that a subject other than the owner
\* runs on an existing task ends with FORBIDDEN (403) and changes no row, and
\* whatever step changes or removes an existing task is a step of a request
\* of that task's owner.
C1_NonOwnerForbidden ==
  [][ /\ \A r \in ReqIds :
           ( /\ Fetches(r)
             /\ tasks[req'[r].task_id] # NoTask
             /\ tasks[req'[r].task_id].user_id # req'[r].current_user )
           => /\ Failed(req'[r], 403, ERROR_FORBIDDEN)
              /\ tasks' = tasks
      /\ \A t \in TaskIds :
           (tasks[t] # NoTask /\ tasks'[t] # tasks[t])
           => \E r \in ReqIds : /\ req'[r] # req[r]
                                 /\ req[r].current_user = tasks[t].user_id
    ]_vars

\* C1 witness: an update and a toggle by a subject that does not own the
\* task have both ended FORBIDDEN, and the task is still there.
C1_Witness ==
  \E r1, r2 \in ReqIds :
    /\ req[r1].op = "update_task" /\ req[r2].op = "toggle_task_completion"
    /\ req[r1].task_id = req[r2].task_id
    /\ req[r1].resp.error_code = ERROR_FORBIDDEN
    /\ req[r2].resp.error_code = ERROR_FORBIDDEN
    /\ req[r2].pc = "done"
    /\ tasks[req[r1].task_id] # NoTask
    /\ tasks[req[r1].task_id].user_id # req[r1].current_user

\* C2: a get, update, delete or toggle whose fetch finds no row under the
\* task id ends with TASK_NOT_FOUND (404), whoever asks.
C2_AbsentIsNotFound ==
  [][ \A r \in ReqIds :
        (Fetches(r) /\ tasks[req'[r].task_id] = NoTask)
        => /\ Failed(req'[r], 404, ERROR_TASK_NOT_FOUND)
           /\ req'[r].pc = "done"
    ]_vars

\* C2 witness: a task was deleted by its owner, and a request of the other
\* user on that id has ended TASK_NOT_FOUND.
C2_Witness ==
  \E d, r \in ReqIds :
    /\ req[d].op = "delete_task" /\ req[d].resp.status = 204
    /\ req[r].op \in TaskRoutes
    /\ req[r].task_id = req[d].task_id
    /\ req[r].current_user # req[d].current_user
    /\ req[r].resp.error_code = ERROR_TASK_NOT_FOUND

\* the toggles of task t that have committed
CommittedToggles(t) ==
  {r \in ReqIds : /\ req[r].op = "toggle_task_completion"
                  /\ req[r].task_id = t
                  /\ req[r].committed}

\* C3: an existing task's completed is its initial value (FALSE) flipped once
\* per committed toggle, and every toggle that returned 200 has committed.
C3_NoLostToggle ==
  /\ \A t \in TaskIds :
       tasks[t] # NoTask
       => tasks[t].completed = (Cardinality(CommittedToggles(t)) % 2 = 1)
  /\ \A r \in ReqIds :
       (req[r].op = "toggle_task_completion" /\ req[r].resp.status = 200)
       => req[r].committed

\* C3 witness: two toggles of one task have both returned 200 and the task
\* is back at completed = FALSE.
C3_Witness ==
  \E r1, r2 \in ReqIds :
    /\ r1 # r2
    /\ req[r1].op = "toggle_task_completion" /\ req[r1].resp.status = 200
    /\ req[r2].op = "toggle_task_completion" /\ req[r2].resp.status = 200
    /\ req[r1].task_id = req[r2].task_id
    /\ tasks[req[r1].task_id] # NoTask
    /\ ~tasks[req[r1].task_id].completed

\* C4 (as the spec states it): the owner's update, delete and toggle of one
\* task answer as some serial execution would: none of them ends with
\* INTERNAL_SERVER_ERROR, and at most one delete of a task answers 204.
C4_SerialOutcome ==
  /\ \A r \in ReqIds :
       req[r].op \in {"update_task", "delete_task", "toggle_task_completion"}
       => req[r].resp.error_code # ERROR_INTERNAL_SERVER
  /\ \A t \in TaskIds :
       Cardinality({r \in ReqIds : /\ req[r].op = "delete_task"
                                   /\ req[r].task_id = t
                                   /\ req[r].resp.status = 204}) <= 1

\* the signups that carry email e and passed validation
Signups(e) == {r \in ReqIds : req[r].op = "signup" /\ req[r].email = e}

\* the emails signups carry that no user had at the start
FreshEmails ==
  {req[r].email : r \in {x \in ReqIds : req[x].op = "signup"}}
    \ {User1.email, ""}

\* C5: no two User rows share an email; of the signups carrying one fresh
\* email at most one commits and returns 201, exactly one once all of them
\* have ended, and the only row with that email is the one the winner made.
C5_OneSignupWins ==
  /\ \A u1, u2 \in users : u1.email = u2.email => u1 = u2
  /\ \A e \in FreshEmails :
       LET S == Signups(e)
           won == {r \in S : req[r].committed}
           created == {r \in S : req[r].resp.status = 201}
       IN  /\ Cardinality(won) <= 1
           /\ created \subseteq won
           /\ (\A r \in S : req[r].pc = "done") => Cardinality(created) = 1
           /\ {u.id : u \in {x \in users : x.email = e}} = {Uuid4(r) : r \in won}

\* C5 witness: of three signups with one fresh email, two passed the lookup
\* together; one returned 201, and neither of the others did.
C5_Witness ==
  \E r1, r2, r3 \in ReqIds :
    /\ {r1, r2, r3} \subseteq Signups("c@x.com")
    /\ req[r1].resp.status = 201
    /\ req[r2].pc = "done" /\ req[r2].resp.status = 500
    /\ req[r3].pc = "done" /\ req[r3].resp.status = 400
    /\ Cardinality({u \in users : u.email = "c@x.com"}) = 1

\* C6 (as the spec states it): a signup that passed validation and did not
\* create its user, which happens only when the email is taken, has answered
\* EMAIL_ALREADY_EXISTS (400).
C6_TakenEmailIs400 ==
  \A r \in ReqIds :
    ( /\ req[r].op = "signup" /\ req[r].pc = "done"
      /\ req[r].email # ""
      /\ req[r].resp.status # 201 )
    => Failed(req[r], 400, ERROR_EMAIL_EXISTS)

\* verify_jwt was called on the token as create_access_token made it
Untampered ==
  /\ verdict # NoVerdict
  /\ verdict.token =
       CreateAccessToken(issued.user_id, issued.expires_delta, issued.at)

\* C7 (as the spec states it): an untampered token verifies to its subject at
\* every time up to its expiry instant, and fails TOKEN_EXPIRED at every
\* later time.
C7_ExpiryInstant ==
  Untampered
  => IF verdict.at <= issued.at + issued.expires_delta
       THEN verdict.exc = NoException /\ verdict.sub = issued.user_id
     ELSE verdict.exc = AppException(401, ERROR_TOKEN_EXPIRED)

\* C7 (amended): an untampered token verifies to its subject at every time
\* that is not in a later whole second than its expiry instant, and fails
\* TOKEN_EXPIRED, never INVALID_TOKEN, at every time in a later whole second.
C7_ExpirySecond ==
  Untampered
  => IF ToIntDate(verdict.at) <= ToIntDate(issued.at + issued.expires_delta)
       THEN verdict.exc = NoException /\ verdict.sub = issued.user_id
     ELSE verdict.exc = AppException(401, ERROR_TOKEN_EXPIRED) /\ verdict.sub = 0

\* C7 witness: the token verified after its expiry instant, within the same
\* whole second.
C7_Witness ==
  /\ Untampered
  /\ verdict.at > issued.at + issued.expires_delta
  /\ verdict.exc = NoException /\ verdict.sub = issued.user_id

\* the signature of the token verify_jwt was called on does not validate
\* under the service secret
BadSignature ==
  /\ verdict # NoVerdict
  /\ verdict.token.sig # Sign(verdict.token.sub, verdict.token.exp,
                              verdict.token.iat, BETTER_AUTH_SECRET)

\* C8: verify_jwt on a token whose signature does not validate under the
\* service secret fails INVALID_TOKEN and returns no subject, whatever
\* subject and expiry the token carries.
C8_BadSignatureInvalid ==
  BadSignature
  => verdict.exc = AppException(401, ERROR_INVALID_TOKEN) /\ verdict.sub = 0

\* C8 witness: a token of an existing subject, past its exp and signed with
\* another secret, was refused as INVALID_TOKEN.
C8_Witness ==
  /\ BadSignature
  /\ verdict.token.sig = Sign(verdict.token.sub, verdict.token.exp,
                              verdict.token.iat, OtherSecret)
  /\ verdict.token.sub \in Subjects
  /\ verdict.token.exp < ToIntDate(verdict.at)
  /\ verdict.exc = AppException(401, ERROR_INVALID_TOKEN)

AuthenticatedRoutes ==
  {"get_me", "list_tasks", "create_task", "get_task", "update_task",
   "delete_task", "toggle_task_completion"}

\* request r calls an authenticated route in this step
Calls(r) ==
  /\ req[r].pc = "idle" /\ req'[r].pc # "idle"
  /\ req'[r].op \in AuthenticatedRoutes

\* the guard turned request r away with this code: the route's body did not
\* run, no table and no lock changed, the session loaded nothing
Rejected(r, code) ==
  /\ Failed(req'[r], 401, code)
  /\ req'[r].pc = "done"
  /\ req'[r].current_user = 0
  /\ req'[r].task = NoTask /\ req'[r].loaded = NoTask /\ req'[r].user = NoUser
  /\ ~req'[r].committed
  /\ UNCHANGED dbVars

\* C9: an authenticated route called without credentials ends MISSING_TOKEN,
\* with an outstanding token past its exp TOKEN_EXPIRED, with a token the
\* service did not issue INVALID_TOKEN, all 401; the call reads, locks and
\* writes no row.
C9_GuardFirst ==
  [][ \A r \in ReqIds :
        Calls(r)
        => LET c == req'[r].credentials
           IN  /\ c = NoCredentials => Rejected(r, ERROR_MISSING_TOKEN)
               /\ (c \in OutstandingTokens /\ c.exp < ToIntDate(now))
                    => Rejected(r, ERROR_TOKEN_EXPIRED)
               /\ c \in ForgedTokens => Rejected(r, ERROR_INVALID_TOKEN)
    ]_vars

\* C9 witness: a delete_task carrying the expired token of the subject that
\* owns a stored task has ended TOKEN_EXPIRED, and the task is still stored.
C9_Witness ==
  \E r \in ReqIds, t \in TaskIds :
    /\ tasks[t] # NoTask
    /\ req[r].op = "delete_task"
    /\ req[r].credentials.sub = tasks[t].user_id
    /\ req[r].pc = "done"
    /\ Failed(req[r], 401, ERROR_TOKEN_EXPIRED)

\* C10 (as the spec states it): every failure reaches the caller in the
\* structured shape with an error code, and a 500 carries
\* INTERNAL_SERVER_ERROR.
C10_StructuredFailure ==
  \A r \in ReqIds :
    (req[r].pc \in {"done", "close"} /\ req[r].resp.status >= 400)
    => /\ req[r].resp.content = "error"
       /\ req[r].resp.error_code # NoCode
       /\ req[r].resp.status = 500
            => req[r].resp.error_code = ERROR_INTERNAL_SERVER

\* the owner's toggle r waits for the row lock that a toggle of another
\* subject took before it was refused
WaitsForRefused(r) ==
  /\ req[r].op = "toggle_task_completion" /\ req[r].pc = "fetch"
  /\ tasks[req[r].task_id] # NoTask
  /\ tasks[req[r].task_id].user_id = req[r].current_user
  /\ \E x \in ReqIds :
       /\ lock[req[r].task_id] = x
       /\ req[x].pc = "close"
       /\ req[x].resp.error_code = ERROR_FORBIDDEN

\* C11: a toggle that was refused FORBIDDEN after its locked fetch has, once
\* the request has ended, no lock and no commit; and the owner's toggle that
\* waits for that lock eventually returns 200.
C11_RefusedToggleLetsGo ==
  /\ [](\A r \in ReqIds :
          ( /\ req[r].op = "toggle_task_completion" /\ req[r].pc = "done"
            /\ req[r].resp.error_code = ERROR_FORBIDDEN )
          => ~Holds(r) /\ ~req[r].committed)
  /\ \A r \in ReqIds :
       WaitsForRefused(r)
         ~> ( /\ req[r].pc = "done" /\ req[r].resp.status = 200
              /\ req[r].committed )

\* C11 witness: the owner's toggle is waiting for the lock that a refused
\* toggle still holds.
C11_Witness == \E r \in ReqIds : WaitsForRefused(r)

\* the taxonomy: the status each error code is documented with
StatusOf ==
  [c \in {ERROR_MISSING_TOKEN, ERROR_TOKEN_EXPIRED, ERROR_INVALID_TOKEN,
          ERROR_INVALID_CREDENTIALS, ERROR_FORBIDDEN, ERROR_USER_NOT_FOUND,
          ERROR_TASK_NOT_FOUND, ERROR_EMAIL_EXISTS, ERROR_VALIDATION_FAILED,
          ERROR_INTERNAL_SERVER} |->
     IF c \in {ERROR_MISSING_TOKEN, ERROR_TOKEN_EXPIRED, ERROR_INVALID_TOKEN,
               ERROR_INVALID_CREDENTIALS} THEN 401
     ELSE IF c = ERROR_FORBIDDEN THEN 403
     ELSE IF c \in {ERROR_USER_NOT_FOUND, ERROR_TASK_NOT_FOUND} THEN 404
     ELSE IF c = ERROR_EMAIL_EXISTS THEN 400
     ELSE IF c = ERROR_VALIDATION_FAILED THEN 422
     ELSE 500]

\* C12: every response that carries an error code carries one of the ten
\* codes of the taxonomy, with the status the taxonomy gives that code, and
\* every structured error body carries a code.
C12_CodeFixesStatus ==
  \A r \in ReqIds :
    /\ req[r].resp.error_code # NoCode
         => /\ req[r].resp.error_code \in DOMAIN StatusOf
            /\ req[r].resp.status = StatusOf[req[r].resp.error_code]
    /\ req[r].resp.content = "error" => req[r].resp.error_code # NoCode

\* C12 witness: a get_me and a task route have both ended with a 404, one
\* USER_NOT_FOUND, the other TASK_NOT_FOUND.
C12_Witness ==
  \E r1, r2 \in ReqIds :
    /\ req[r1].op = "get_me"
    /\ Failed(req[r1], 404, ERROR_USER_NOT_FOUND)
    /\ req[r2].op \in TaskRoutes
    /\ Failed(req[r2], 404, ERROR_TASK_NOT_FOUND)

\* request r runs list_tasks to its return in this step
Lists(r) ==
  /\ req[r].pc = "idle"
  /\ req'[r].op = "list_tasks" /\ req'[r].resp.status = 200

\* the stored tasks of user_id
TasksOf(user_id) ==
  {tasks[t] : t \in {x \in TaskIds : tasks[x] # NoTask
                                     /\ tasks[x].user_id = user_id}}

\* C13: list_tasks returns each stored task of its subject once, no other
\* task, and no task before one that was created later.
C13_ListIsOwnNewestFirst ==
  [][ \A r \in ReqIds :
        Lists(r)
        => LET result == req'[r].resp.tasks
               n == Cardinality(TasksOf(req'[r].current_user))
           IN  /\ DOMAIN result = 1..n
               /\ {result[i] : i \in 1..n} = TasksOf(req'[r].current_user)
               /\ \A i, j \in 1..n :
                    i < j => result[i].created_at >= result[j].created_at
    ]_vars

\* C13 witness: a list of two tasks, the one created later first.
C13_Witness ==
  \E r \in ReqIds :
    /\ req[r].op = "list_tasks" /\ req[r].resp.status = 200
    /\ DOMAIN req[r].resp.tasks = 1..2
    /\ req[r].resp.tasks[1].created_at > req[r].resp.tasks[2].created_at
    /\ req[r].resp.tasks[1].user_id = req[r].current_user

\* C14 (as the spec states it): the task that create_task has just stored has
\* created_at equal to updated_at.
C14_CreatedIsUpdated ==
  \A r \in ReqIds :
    (req[r].op = "create_task" /\ req[r].pc = "refresh")
    => /\ req[r].task.created_at = req[r].task.updated_at
       /\ tasks[req[r].task_id] # NoTask
            => tasks[req[r].task_id].created_at = tasks[req[r].task_id].updated_at

\* request g runs get_task in this step, on the task that create_task c
\* returned to the same subject, and no other request has been made
GetsAfterCreate(c, g) ==
  /\ req[c].op = "create_task" /\ req[c].pc = "done"
  /\ req[c].resp.status = 201
  /\ req[g].pc = "idle" /\ req'[g].op = "get_task"
  /\ req'[g].task_id = req[c].resp.task.id
  /\ req'[g].current_user = req[c].current_user
  /\ \A x \in ReqIds \ {c, g} : req[x].pc = "idle"

\* a title or description with no space at either end
Normalized(v) == v = None \/ Strip(v) = v

\* C15: a get_task that follows a successful create_task of the same subject,
\* with no request in between, returns 200 with the title and description
\* that create_task returned, which are normalized, completed = FALSE and
\* the subject as user_id.
C15_CreateThenGet ==
  [][ \A c, g \in ReqIds :
        GetsAfterCreate(c, g)
        => LET created == req[c].resp.task
               got == req'[g].resp.task
           IN  /\ req'[g].resp.status = 200
               /\ got.id = created.id
               /\ got.title = created.title
               /\ got.description = created.description
               /\ Normalized(got.title) /\ got.title \notin {None, <<>>}
               /\ Normalized(got.description)
               /\ got.completed = FALSE
               /\ got.user_id = req[c].current_user
    ]_vars

\* C15 witness: a task created with a description, then fetched by its
\* creator as the second request.
C15_Witness ==
  \E c, g \in ReqIds :
    /\ req[c].op = "create_task" /\ req[c].resp.status = 201
    /\ req[g].op = "get_task" /\ req[g].resp.status = 200
    /\ req[g].resp.task = req[c].resp.task
    /\ req[g].resp.task.description # None
    /\ req[g].current_user = req[c].current_user
    /\ \A x \in ReqIds \ {c, g} : req[x].pc = "idle"

\* the create_task request that stored task t
CreatorOf(t) ==
  {c \in ReqIds : /\ req[c].op = "create_task"
                  /\ req[c].task_id = t
                  /\ req[c].committed}

\* C16: every stored task has the user_id that its create_task request
\* authenticated as, whatever updates, toggles and deletes have run and
\* whatever user_id the bodies of the updates carried.
C16_OwnerIsCreator ==
  \A t \in TaskIds :
    tasks[t] # NoTask
    => \E c \in CreatorOf(t) :
         /\ tasks[t].user_id = req[c].current_user
         /\ tasks[t].user_id = req[c].credentials.sub

\* C16 witness: the owner's update whose body named another user as user_id
\* has committed, and the task is still the owner's.
C16_Witness ==
  \E r \in ReqIds :
    /\ req[r].op = "update_task" /\ req[r].pc = "refresh"
    /\ req[r].committed
    /\ req[r].body_user_id \notin {0, req[r].current_user}
    /\ tasks[req[r].task_id] # NoTask
    /\ tasks[req[r].task_id].user_id = req[r].current_user

\* the commit of update_task r succeeds in this step, on a task that is
\* still stored
UpdateCommits(r) ==
  /\ req[r].op = "update_task"
  /\ req[r].pc = "commit" /\ req'[r].pc = "refresh"
  /\ tasks[req[r].task_id] # NoTask

\* what a successful update leaves alone: the other columns of its task, and
\* every other task
UpdateFrame(r) ==
  LET t == req[r].task_id
  IN  /\ tasks[t] # NoTask /\ tasks'[t] # NoTask
      /\ tasks'[t].id = tasks[t].id
      /\ tasks'[t].user_id = tasks[t].user_id
      /\ tasks'[t].completed = tasks[t].completed
      /\ tasks'[t].created_at = tasks[t].created_at
      /\ \A x \in TaskIds \ {t} : tasks'[x] = tasks[x]

\* C17 (as the spec states it): a successful update stores exactly the title
\* and the description that its body carries, leaves the one the body omits
\* as it was, and changes nothing else.
C17_ExactValues ==
  [][ \A r \in ReqIds :
        UpdateCommits(r)
        => LET t == req[r].task_id
           IN  /\ UpdateFrame(r)
               /\ tasks'[t].title =
                    IF req[r].title # None THEN req[r].title ELSE tasks[t].title
               /\ tasks'[t].description =
                    IF req[r].description # None THEN req[r].description
                    ELSE tasks[t].description
    ]_vars

\* the value the stored column takes when the body carries value v: v without
\* the spaces at its ends; when that is the value the request loaded, the
\* column may instead stay as another request left it
Written(column, v, loaded, after, before) ==
  \/ after[column] = Strip(v)
  \/ Strip(v) = loaded[column] /\ after[column] = before[column]

\* C17 (amended): a successful update stores the title and the description of
\* its body with the spaces at their ends removed, leaves an omitted title, and
\* an omitted or empty description, as it was, and changes nothing else.
C17_TrimmedValues ==
  [][ \A r \in ReqIds :
        UpdateCommits(r)
        => LET t == req[r].task_id
           IN  /\ UpdateFrame(r)
               /\ IF req[r].title # None
                    THEN Written("title", req[r].title, req[r].loaded,
                                 tasks'[t], tasks[t])
                  ELSE tasks'[t].title = tasks[t].title
               /\ IF Truthy(req[r].description)
                    THEN Written("description", req[r].description,
                                 req[r].loaded, tasks'[t], tasks[t])
                  ELSE tasks'[t].description = tasks[t].description
    ]_vars

\* C17 witness: an update with a title and no description has committed after
\* a toggle of the same task did; the task has the new title, the description
\* it was created with, and is completed.
C17_Witness ==
  \E r \in ReqIds :
    /\ req[r].op = "update_task" /\ req[r].pc = "refresh" /\ req[r].committed
    /\ req[r].title # None /\ req[r].description = None
    /\ tasks[req[r].task_id] # NoTask
    /\ tasks[req[r].task_id].title = Strip(req[r].title)
    /\ tasks[req[r].task_id].title # req[r].loaded.title
    /\ tasks[req[r].task_id].description = req[r].loaded.description
    /\ tasks[req[r].task_id].description # None
    /\ tasks[req[r].task_id].completed /\ ~req[r].loaded.completed

\* a delete_task of task t has returned 204
Deleted(t) ==
  \E d \in ReqIds : /\ req[d].op = "delete_task" /\ req[d].task_id = t
                     /\ req[d].pc = "done" /\ req[d].resp.status = 204

\* C18: once a delete_task of a task has returned 204 the task is stored in
\* no later state, no list_tasks run afterwards returns it, and every get,
\* update, delete and toggle that fetches it afterwards ends TASK_NOT_FOUND.
C18_DeletedStaysDeleted ==
  [][ \A t \in TaskIds :
        Deleted(t)
        => /\ tasks[t] = NoTask /\ tasks'[t] = NoTask
           /\ \A r \in ReqIds :
                /\ (Fetches(r) /\ req'[r].task_id = t)
                     => Failed(req'[r], 404, ERROR_TASK_NOT_FOUND)
                /\ Lists(r)
                     => \A i \in DOMAIN req'[r].resp.tasks :
                          req'[r].resp.tasks[i].id # t
    ]_vars

\* C18 witness: the owner deleted a task, and the owner's own toggle of that
\* task, the request after the delete, has ended TASK_NOT_FOUND.
C18_Witness ==
  \E d, r \in ReqIds :
    /\ d < r
    /\ req[d].op = "delete_task" /\ req[d].resp.status = 204
    /\ req[r].op = "toggle_task_completion"
    /\ req[r].task_id = req[d].task_id
    /\ req[r].current_user = req[d].current_user
    /\ Failed(req[r], 404, ERROR_TASK_NOT_FOUND)
    /\ tasks[req[d].task_id] = NoTask

\* request r runs signin in this step
SignsIn(r) == req[r].pc = "idle" /\ req'[r].op = "signin"

\* the users whose email and password the signin r carries
Matching(r) ==
  {u \in users : /\ u.email = req'[r].email
                 /\ u.password_hash = HashPassword(req'[r].password)}

\* C19: signin answers 200 with a token that verifies to the id of the user
\* whose email and password it carries when there is such a user, and
\* otherwise the one INVALID_CREDENTIALS (401) response, the same for an
\* unknown email and a wrong password; it changes no table.
C19_SigninMatches ==
  [][ \A r \in ReqIds :
        SignsIn(r)
        => /\ UNCHANGED dbVars
           /\ req'[r].pc = "done"
           /\ IF Matching(r) # {}
                THEN /\ req'[r].resp.status = 200
                     /\ req'[r].resp.user \in Matching(r)
                     /\ req'[r].resp.access_token.sub = req'[r].resp.user.id
                     /\ VerifyJwt(req'[r].resp.access_token, now) =
                          Returned(req'[r].resp.user.id)
              ELSE req'[r].resp =
                     AppExceptionHandler(
                       AppException(401, ERROR_INVALID_CREDENTIALS))
    ]_vars

\* C19 witness: a user who signed up in this run has signed in, and a signin
\* with that email and another password was refused.
C19_Witness ==
  \E r1, r2 \in ReqIds :
    /\ req[r1].op = "signin" /\ req[r1].resp.status = 200
    /\ req[r1].resp.user.email = "c@x.com"
    /\ req[r2].op = "signin" /\ req[r2].email = "c@x.com"
    /\ req[r2].password # req[r1].password
    /\ Failed(req[r2], 401, ERROR_INVALID_CREDENTIALS)

\* C20 (as the spec states it): a request that has ended with an error
\* response has committed no write.
C20_ErrorsWriteNothing ==
  \A r \in ReqIds :
    (req[r].pc \in {"done", "close"} /\ req[r].resp.status >= 400)
    => ~req[r].committed

\* the description the body of update_task r carries is an empty string or
\* only spaces
BlankDescription(r) ==
  /\ req[r].description # None
  /\ Strip(req[r].description) = <<>>

\* C22: update_task can never clear a description: a successful update whose
\* body carries an empty or all-space description leaves the stored
\* description as it was, and no step of an update_task makes a stored
\* non-empty description empty or null.
C22_DescriptionNeverCleared ==
  [][ \A r \in ReqIds :
        UpdateCommits(r)
        => LET t == req[r].task_id
           IN  /\ BlankDescription(r)
                    => tasks'[t].description = tasks[t].description
               /\ Truthy(tasks[t].description)
                    => Truthy(tasks'[t].description)
    ]_vars

\* the statement request r is about to run needs the row lock of its task:
\* the SELECT ... FOR UPDATE of a toggle, or the UPDATE / DELETE that the
\* commit of a request flushes
NeedsLock(r) ==
  \/ /\ req[r].op = "toggle_task_completion" /\ req[r].pc = "fetch"
     /\ tasks[req[r].task_id] # NoTask
  \/ /\ req[r].op \in {"update_task", "toggle_task_completion"}
     /\ req[r].pc = "commit" /\ req[r].task # req[r].loaded
  \/ req[r].op = "delete_task" /\ req[r].pc = "commit"

\* request r waits for a row lock that request x holds
WaitsFor(r, x) ==
  /\ r # x
  /\ NeedsLock(r)
  /\ lock[req[r].task_id] = x

\* the row locks request r holds
LocksOf(r) == {t \in TaskIds : lock[t] = r}

\* C21: no deadlock: a request holds the lock of at most one task row, and
\* none once it has ended; no two requests each wait for a lock the other
\* holds; and with every runnable coroutine eventually run, every request
\* that arrived ends with a response.
C21_NoDeadlock ==
  /\ [](\A r \in ReqIds :
          /\ Cardinality(LocksOf(r)) <= 1
          /\ req[r].pc \in {"idle", "done"} => LocksOf(r) = {}
          /\ \A x \in ReqIds : ~(WaitsFor(r, x) /\ WaitsFor(x, r)))
  /\ \A r \in ReqIds :
       (req[r].pc # "idle") ~> (req[r].pc = "done" /\ req[r].resp.status # 0)

\* C21 witness: an update of the owner waits for the lock of the row that a
\* toggle holds between its locked fetch and its commit.
C21_Witness ==
  \E r, y \in ReqIds :
    /\ req[r].op = "update_task" /\ WaitsFor(r, y)
    /\ req[y].op = "toggle_task_completion" /\ req[y].pc = "commit"

====
